---- MODULE Spec2Model ----
(***************************************************************************)
(* Model of the Tauri backend of OpenCodeUI (src-tauri/src/app.rs):        *)
(*   - the SSE relay: sse_connect / sse_disconnect and the window          *)
(*     Destroyed handler, over the shared SseState;                        *)
(*   - the read loop's line parser (chunk decoding, line splitting,        *)
(*     data: accumulation, record flush);                                  *)
(*   - the service supervisor: start / stop / get_service_started_by_us /  *)
(*     confirm_close_app over the shared ServiceState.                     *)
(* Commands are async and run on a multi-threaded runtime, so a command    *)
(* is split into steps at its awaits and at every access to shared state.  *)
(***************************************************************************)
EXTENDS Naturals, Sequences, FiniteSets

VARIABLES
    next_id,      \* SseState.next_id
    active,       \* SseState.active, as a set of <<window label, connection id>>
    ncalls,       \* number of sse_connect invocations so far
    nchunks,      \* number of data: lines delivered by the network so far
    conn,         \* conn[t]: the locals and position of the t-th sse_connect call
    child_pid,    \* ServiceState.child_pid (0 is None)
    we_started,   \* ServiceState.we_started
    healthy,      \* whether GET <url>/global/health answers 2xx right now
    spawned,      \* pids of the processes spawn_opencode_serve created
    killed,       \* pids kill_process_by_pid was called with
    start,        \* start[t]: the locals and position of the t-th start call
    stop,         \* stop[s]: the locals and position of the s-th stop / confirm_close call
    p_input,      \* parser harness: the bytes the server sends
    p_pos,        \* parser harness: how many of them have been delivered
    p_text,       \* parser harness: the decoded text pushed on the buffer so far
    p_eof,        \* parser harness: the stream has ended
    p_rl          \* parser harness: the read loop's locals

relayVars == <<next_id, active, ncalls, nchunks, conn>>
serviceVars == <<child_pid, we_started, healthy, spawned, killed, start, stop>>
parseVars == <<p_input, p_pos, p_text, p_eof, p_rl>>
vars == <<next_id, active, ncalls, nchunks, conn,
          child_pid, we_started, healthy, spawned, killed, start, stop,
          p_input, p_pos, p_text, p_eof, p_rl>>

(***************************************************************************)
(* Bounds of the model.                                                    *)
(***************************************************************************)
MaxConnects == 2      \* sse_connect calls
MaxChunks == 1        \* data: lines the network delivers (blank lines are free)
MaxCalls == 3         \* calls of the service commands (start, stop, confirm_close_app)
MaxLines == 3         \* lines of the parser harness's input

Windows == {"main", "win-1"}

(***************************************************************************)
(* Sequence helpers.                                                       *)
(***************************************************************************)
RECURSIVE Flatten(_)
Flatten(ss) == IF ss = <<>> THEN <<>> ELSE Head(ss) \o Flatten(Tail(ss))

Last(s) == s[Len(s)]

\* position of the first element of s equal to c, 0 when there is none
RECURSIVE FindFrom(_, _, _)
FindFrom(s, c, i) ==
    IF i > Len(s) THEN 0
    ELSE IF s[i] = c THEN i
    ELSE FindFrom(s, c, i + 1)

Find(s, c) == FindFrom(s, c, 1)

(***************************************************************************)
(* std::collections::HashMap<String, u64>, as a set of <<key, value>>.     *)
(***************************************************************************)
MapKeys(m) == {p[1] : p \in m}

\* m.get(k), 0 for None
MapGet(m, k) ==
    IF k \in MapKeys(m) THEN (CHOOSE p \in m : p[1] = k)[2] ELSE 0

MapInsertKeepOld(m, k, v) == m \cup {<<k, v>>}

MapInsert(m, k, v) == {p \in m : p[1] # k} \cup {<<k, v>>}

MapRemoveNothing(m, k) == m

MapRemoveAll(m, k) == {}

MapRemove(m, k) == {p \in m : p[1] # k}

(***************************************************************************)
(* Bytes and characters.  A byte or a character is a one-token string;     *)
(* "C3" "A9" are the two bytes of the UTF-8 encoding of the character      *)
(* "e'" and "FFFD" is U+FFFD REPLACEMENT CHARACTER.                        *)
(***************************************************************************)
IsLeadByte(b) == b = "C3"
IsContByte(b) == b = "A9"
Replacement == "FFFD"

\* String::from_utf8_lossy on one chunk
RECURSIVE FromUtf8Lossy(_)
FromUtf8Lossy(bytes) ==
    IF bytes = <<>> THEN <<>>
    ELSE IF IsLeadByte(Head(bytes)) THEN
        IF Len(bytes) >= 2 /\ IsContByte(bytes[2])
        THEN <<"e'">> \o FromUtf8Lossy(Tail(Tail(bytes)))
        ELSE <<Replacement>> \o FromUtf8Lossy(Tail(bytes))
    ELSE IF IsContByte(Head(bytes)) THEN <<Replacement>> \o FromUtf8Lossy(Tail(bytes))
    ELSE <<Head(bytes)>> \o FromUtf8Lossy(Tail(bytes))

IsWhitespace(c) == c \in {" ", "\t", "\n", "\r"}

\* str::trim_end_matches('\r')
RECURSIVE TrimEndCr(_)
TrimEndCr(s) ==
    IF s # <<>> /\ Last(s) = "\r" THEN TrimEndCr(SubSeq(s, 1, Len(s) - 1)) ELSE s

RECURSIVE TrimStart(_)
TrimStart(s) ==
    IF s # <<>> /\ IsWhitespace(Head(s)) THEN TrimStart(Tail(s)) ELSE s

RECURSIVE TrimEnd(_)
TrimEnd(s) ==
    IF s # <<>> /\ IsWhitespace(Last(s)) THEN TrimEnd(SubSeq(s, 1, Len(s) - 1)) ELSE s

\* str::trim
Trim(s) == TrimEnd(TrimStart(s))

DataPrefix == <<"d", "a", "t", "a", ":">>

\* line.strip_prefix("data:") is Some
HasDataPrefix(line) ==
    /\ Len(line) >= Len(DataPrefix)
    /\ SubSeq(line, 1, Len(DataPrefix)) = DataPrefix

\* the stripped rest
StripDataPrefix(line) == SubSeq(line, Len(DataPrefix) + 1, Len(line))

(***************************************************************************)
(* SseEvent, as sent on the channel.                                       *)
(***************************************************************************)
EvConnected == [event |-> "connected", data |-> <<>>]
EvMessage(raw) == [event |-> "message", data |-> raw]
EvDisconnected(reason) == [event |-> "disconnected", data |-> <<reason>>]
EvError(message) == [event |-> "error", data |-> <<message>>]

ByClient == "Disconnected by client"
StreamEnded == "Stream ended"
MsgConnectFailed == "SSE connection failed"
MsgBadStatus == "SSE server returned"
MsgStreamError == "SSE stream error"
MsgReadTimeout == "SSE read timeout (90s without data)"

(***************************************************************************)
(* The read loop's locals: buffer, event_data, and what it has sent.       *)
(***************************************************************************)
EmptyLoop == [buffer |-> <<>>, event_data |-> <<>>, events |-> <<>>]

AppendDataNoJoin(event_data, data) == event_data \o data

\* lines 160-163: push '\n' when the record has content, then the payload
AppendData(event_data, data) ==
    IF event_data # <<>> THEN event_data \o <<"\n">> \o data ELSE event_data \o data

HandleLineFlushing(rl, rawLine) ==
    LET line == TrimEndCr(rawLine) IN
    IF HasDataPrefix(line) THEN
        LET data == Trim(StripDataPrefix(line)) IN
        IF data # <<>>
        THEN [rl EXCEPT !.event_data = AppendData(rl.event_data, data)]
        ELSE rl
    ELSE IF rl.event_data # <<>>
        THEN [rl EXCEPT !.events = Append(rl.events, EvMessage(rl.event_data)),
                        !.event_data = <<>>]
        ELSE rl

\* lines 155-178: one complete line (without its '\n')
HandleLine(rl, rawLine) ==
    LET line == TrimEndCr(rawLine) IN
    IF HasDataPrefix(line) THEN
        LET data == Trim(StripDataPrefix(line)) IN
        IF data # <<>>
        THEN [rl EXCEPT !.event_data = AppendData(rl.event_data, data)]
        ELSE rl
    ELSE IF line = <<>> THEN
        IF rl.event_data # <<>>
        THEN [rl EXCEPT !.events = Append(rl.events, EvMessage(rl.event_data)),
                        !.event_data = <<>>]
        ELSE rl
    ELSE rl

\* lines 151-179: while let Some(newline_pos) = buffer.find('\n')
RECURSIVE DrainLines(_)
DrainLines(rl) ==
    LET newline_pos == Find(rl.buffer, "\n") IN
    IF newline_pos = 0 THEN rl
    ELSE DrainLines(HandleLine(
            [rl EXCEPT !.buffer = SubSeq(rl.buffer, newline_pos + 1, Len(rl.buffer))],
            SubSeq(rl.buffer, 1, newline_pos - 1)))

\* lines 146-180: the Ok(Some(Ok(chunk))) arm
ProcessChunk(rl, chunk) ==
    DrainLines([rl EXCEPT !.buffer = rl.buffer \o FromUtf8Lossy(chunk)])

ProcessEndNoFlush(rl) ==
    [rl EXCEPT !.events = Append(rl.events, EvDisconnected(StreamEnded))]

\* lines 188-198: the Ok(None) arm
ProcessEnd(rl) ==
    LET flushed == IF rl.event_data # <<>>
                   THEN Append(rl.events, EvMessage(rl.event_data))
                   ELSE rl.events
    IN [rl EXCEPT !.events = Append(flushed, EvDisconnected(StreamEnded))]

(***************************************************************************)
(* Idle parts: every specification below moves one component and leaves    *)
(* the others in their state after construction.                           *)
(***************************************************************************)
IdleConn ==
    [pc |-> "idle", win |-> "main", id |-> 0, rl |-> EmptyLoop,
     result |-> "none", exit |-> "none"]
IdleStart == [pc |-> "idle", pid |-> 0, polls |-> 0, result |-> "none", solo |-> FALSE]
IdleStop ==
    [pc |-> "idle", kind |-> "stop", win |-> "main", pid |-> 0,
     result |-> "none", solo |-> FALSE]

\* SseState::default() (lines 35-42), no command called yet
RelayInit ==
    /\ next_id = 0
    /\ active = {}
    /\ ncalls = 0
    /\ nchunks = 0
    /\ conn = [t \in 1..MaxConnects |-> IdleConn]

\* ServiceState::default() (lines 277-284)
ServiceInit ==
    /\ child_pid = 0
    /\ we_started = FALSE
    /\ healthy = FALSE
    /\ spawned = {}
    /\ killed = {}
    /\ start = [t \in 1..MaxCalls |-> IdleStart]
    /\ stop = [s \in 1..MaxCalls |-> IdleStop]

ParseIdle ==
    /\ p_input = <<>>
    /\ p_pos = 0
    /\ p_text = <<>>
    /\ p_eof = FALSE
    /\ p_rl = EmptyLoop

(***************************************************************************)
(* The SSE relay.  conn[t].pc is where the t-th sse_connect call stands:   *)
(*   "idle"    not called yet                                              *)
(*   "insert"  conn_id allocated (line 88), about to register (line 90)    *)
(*   "send"    registered, building the client and awaiting req.send()     *)
(*   "check"   at the top of the loop (line 138)                           *)
(*   "read"    awaiting stream.next() under the read timeout (line 145)    *)
(*   "done"    returned; conn[t].exit names the return statement           *)
(***************************************************************************)
Conns == 1..MaxConnects

AllocIdFirst(n) == 1

\* next_id.fetch_add(1, SeqCst) + 1 (line 88): the id handed to the caller
AllocId(n) == n + 1

\* active.get(&win_label) == Some(&conn_id) (line 138)
StillActiveIfAny(m, w, id) == MapGet(m, w) # 0

StillActiveOrNone(m, w, id) == MapGet(m, w) \in {0, id}

StillActive(m, w, id) == MapGet(m, w) = id

Emit(c, ev) == [c EXCEPT !.rl.events = Append(c.rl.events, ev)]

Return(c, res, how) == [c EXCEPT !.pc = "done", !.result = res, !.exit = how]

CheckExitSilent(c) == Return(c, "ok", "check")

\* lines 139-142: the connection is no longer the window's active one
CheckExit(c) == Return(Emit(c, EvDisconnected(ByClient)), "ok", "check")

\* lines 87-88: the call starts and takes its connection id
ConnInvoke(w) ==
    /\ ncalls < MaxConnects
    /\ ncalls' = ncalls + 1
    /\ next_id' = next_id + 1
    /\ conn' = [conn EXCEPT ![ncalls + 1] =
                    [IdleConn EXCEPT !.pc = "insert", !.win = w, !.id = AllocId(next_id)]]
    /\ UNCHANGED <<active, nchunks>>
    /\ UNCHANGED serviceVars
    /\ UNCHANGED parseVars

\* line 90: state.active.lock().unwrap().insert(win_label, conn_id)
ConnInsert(t) ==
    /\ conn[t].pc = "insert"
    /\ active' = MapInsert(active, conn[t].win, conn[t].id)
    /\ conn' = [conn EXCEPT ![t].pc = "send"]
    /\ UNCHANGED <<next_id, ncalls, nchunks>>
    /\ UNCHANGED serviceVars
    /\ UNCHANGED parseVars

\* lines 93-99: Client::builder()...build() fails, `?` returns the error
ConnBuildFail(t) ==
    /\ conn[t].pc = "send"
    /\ conn' = [conn EXCEPT ![t] = Return(conn[t], "err", "build")]
    /\ UNCHANGED <<next_id, active, ncalls, nchunks>>
    /\ UNCHANGED serviceVars
    /\ UNCHANGED parseVars

\* lines 107-113: req.send() fails
ConnSendFail(t) ==
    /\ conn[t].pc = "send"
    /\ conn' = [conn EXCEPT ![t] = Return(Emit(conn[t], EvError(MsgConnectFailed)), "err", "send")]
    /\ UNCHANGED <<next_id, active, ncalls, nchunks>>
    /\ UNCHANGED serviceVars
    /\ UNCHANGED parseVars

\* lines 115-122: the status is not 2xx
ConnBadStatus(t) ==
    /\ conn[t].pc = "send"
    /\ conn' = [conn EXCEPT ![t] = Return(Emit(conn[t], EvError(MsgBadStatus)), "err", "status")]
    /\ UNCHANGED <<next_id, active, ncalls, nchunks>>
    /\ UNCHANGED serviceVars
    /\ UNCHANGED parseVars

\* lines 124-134: the response arrived with a 2xx status
ConnConnected(t) ==
    /\ conn[t].pc = "send"
    /\ conn' = [conn EXCEPT ![t] = [Emit(conn[t], EvConnected) EXCEPT !.pc = "check"]]
    /\ UNCHANGED <<next_id, active, ncalls, nchunks>>
    /\ UNCHANGED serviceVars
    /\ UNCHANGED parseVars

\* lines 136-143: the check at the top of the loop
ConnCheck(t) ==
    /\ conn[t].pc = "check"
    /\ conn' = [conn EXCEPT ![t] =
                    IF StillActive(active, conn[t].win, conn[t].id)
                    THEN [conn[t] EXCEPT !.pc = "read"]
                    ELSE CheckExit(conn[t])]
    /\ UNCHANGED <<next_id, active, ncalls, nchunks>>
    /\ UNCHANGED serviceVars
    /\ UNCHANGED parseVars

\* the chunks the model's server sends: a data: line, and a blank line, which
\* ends the record in progress and is a keep-alive when there is none
ChunkData == <<"d", "a", "t", "a", ":", "x", "\n">>
ChunkBlank == <<"\n">>

\* lines 145-180: a chunk arrives within the read timeout
ConnReadChunk(t, chunk) ==
    /\ conn[t].pc = "read"
    /\ \/ chunk = ChunkBlank /\ nchunks' = nchunks
       \/ chunk = ChunkData /\ nchunks < MaxChunks /\ nchunks' = nchunks + 1
    /\ conn' = [conn EXCEPT ![t].rl = ProcessChunk(conn[t].rl, chunk), ![t].pc = "check"]
    /\ UNCHANGED <<next_id, active, ncalls>>
    /\ UNCHANGED serviceVars
    /\ UNCHANGED parseVars

\* lines 181-187: the stream yields an error
ConnReadError(t) ==
    /\ conn[t].pc = "read"
    /\ conn' = [conn EXCEPT ![t] = Return(Emit(conn[t], EvError(MsgStreamError)), "err", "error")]
    /\ UNCHANGED <<next_id, active, ncalls, nchunks>>
    /\ UNCHANGED serviceVars
    /\ UNCHANGED parseVars

\* lines 188-199: the stream ends
ConnReadEnd(t) ==
    /\ conn[t].pc = "read"
    /\ conn' = [conn EXCEPT ![t] =
                    Return([conn[t] EXCEPT !.rl = ProcessEnd(conn[t].rl)], "ok", "end")]
    /\ UNCHANGED <<next_id, active, ncalls, nchunks>>
    /\ UNCHANGED serviceVars
    /\ UNCHANGED parseVars

ConnReadTimeoutFlushing(t) ==
    /\ conn[t].pc = "read"
    /\ LET c == conn[t]
           flushed == IF c.rl.event_data # <<>>
                      THEN Emit(c, EvMessage(c.rl.event_data))
                      ELSE c
       IN conn' = [conn EXCEPT ![t] =
                      Return(Emit(flushed, EvError(MsgReadTimeout)), "err", "timeout")]
    /\ UNCHANGED <<next_id, active, ncalls, nchunks>>
    /\ UNCHANGED serviceVars
    /\ UNCHANGED parseVars

\* lines 200-207: READ_TIMEOUT passes with no chunk
ConnReadTimeout(t) ==
    /\ conn[t].pc = "read"
    /\ conn' = [conn EXCEPT ![t] = Return(Emit(conn[t], EvError(MsgReadTimeout)), "err", "timeout")]
    /\ UNCHANGED <<next_id, active, ncalls, nchunks>>
    /\ UNCHANGED serviceVars
    /\ UNCHANGED parseVars

\* lines 213-217: sse_disconnect
SseDisconnect(w) ==
    /\ active' = MapRemove(active, w)
    /\ UNCHANGED <<next_id, ncalls, nchunks, conn>>
    /\ UNCHANGED serviceVars
    /\ UNCHANGED parseVars

\* lines 536-540: WindowEvent::Destroyed
WindowDestroyed(w) ==
    /\ active' = MapRemove(active, w)
    /\ UNCHANGED <<next_id, ncalls, nchunks, conn>>
    /\ UNCHANGED serviceVars
    /\ UNCHANGED parseVars

\* a step of the t-th call
ConnStep(t) ==
    \/ ConnInsert(t)
    \/ ConnBuildFail(t)
    \/ ConnSendFail(t)
    \/ ConnBadStatus(t)
    \/ ConnConnected(t)
    \/ ConnCheck(t)
    \/ \E chunk \in {ChunkData, ChunkBlank} : ConnReadChunk(t, chunk)
    \/ ConnReadError(t)
    \/ ConnReadEnd(t)
    \/ ConnReadTimeout(t)

RelayNext ==
    \/ \E w \in Windows : ConnInvoke(w)
    \/ \E t \in Conns : ConnStep(t)
    \/ \E w \in Windows : SseDisconnect(w)
    \/ \E w \in Windows : WindowDestroyed(w)

InitRelay == RelayInit /\ ServiceInit /\ ParseIdle

SpecRelay == InitRelay /\ [][RelayNext]_vars

\* Every call that can take a step eventually takes one: the runtime polls a
\* ready task, and a pending request or read completes (with a response, a
\* chunk, an end, an error, or the read timeout).
FairSpecRelay == SpecRelay /\ \A t \in Conns : WF_vars(ConnStep(t))

(***************************************************************************)
(* Properties of the relay.                                                *)
(***************************************************************************)
EventsOf(t) == conn[t].rl.events

\* the call has registered its id and has not returned
Registered(t) == conn[t].pc \in {"send", "check", "read"}

\* the call is running and its window's active id is another connection's
Superseded(t) ==
    /\ Registered(t)
    /\ MapGet(active, conn[t].win) \notin {0, conn[t].id}

IsTerminal(ev) == ev.event \in {"disconnected", "error"}

\* the events the step sends on the t-th call's channel
NewEvents(t) == SubSeq(EventsOf(t)', Len(EventsOf(t)) + 1, Len(EventsOf(t)'))

Returns(t) == conn[t].pc # "done" /\ conn'[t].pc = "done"

\* C1: in every reachable state each window has at most one connection id
\* recorded as active, and at most one running call is the active one.
C1_AtMostOneActive ==
    \A w \in Windows :
        /\ Cardinality({p \in active : p[1] = w}) <= 1
        /\ Cardinality({t \in Conns : /\ Registered(t)
                                      /\ conn[t].win = w
                                      /\ <<w, conn[t].id>> \in active}) <= 1

\* two calls of one window are running and one of them holds the active id
C1_Witness ==
    \E t1, t2 \in Conns :
        /\ t1 # t2
        /\ Registered(t1)
        /\ Registered(t2)
        /\ conn[t1].win = conn[t2].win
        /\ <<conn[t2].win, conn[t2].id>> \in active

SupersededLeadsToDone ==
    \A t \in Conns : Superseded(t) ~> (conn[t].pc = "done")

C3_EventOrder ==
    \A t \in Conns :
        LET ev == EventsOf(t) IN
        /\ \A i \in 1..Len(ev) : ev[i].event = "connected" => i = 1
        /\ \A i \in 1..Len(ev) : IsTerminal(ev[i]) => (i = Len(ev) /\ conn[t].pc = "done")
        /\ conn[t].pc = "done" => (ev # <<>> /\ IsTerminal(Last(ev)))

\* C4 as stated: once another connection id is the window's active one, the
\* older call sends no further Connected or Message event.
C4_Original ==
    [][\A t \in Conns :
        Superseded(t) =>
            \A i \in 1..Len(NewEvents(t)) :
                NewEvents(t)[i].event \notin {"connected", "message"}]_vars

\* C4 amended: once another connection id is the window's active one, the
\* older call sends nothing but Disconnected{"Disconnected by client"} from its
\* next check at the top of the loop on, and that check ends it.  Until it
\* reaches that check it can still send Connected (when its pending request
\* completes) and the Messages of the one read it is waiting for; these come
\* only with the step that completes that wait and leads to the check.
C4_SilentAfterNextCheck ==
    [][\A t \in Conns :
        Superseded(t) =>
            /\ (conn[t].pc = "check" /\ conn'[t] # conn[t]) =>
                    /\ conn'[t].pc = "done"
                    /\ NewEvents(t) = <<EvDisconnected(ByClient)>>
            /\ (\E i \in 1..Len(NewEvents(t)) :
                    NewEvents(t)[i].event \in {"connected", "message"}) =>
                    /\ conn[t].pc \in {"send", "read"}
                    /\ conn'[t].pc \in {"check", "done"}]_vars

\* an older call sent Connected and a Message and was then ended by its check,
\* while a later call of the same window is running as the active one
C4_Witness ==
    \E t1, t2 \in Conns :
        /\ t1 # t2
        /\ conn[t1].win = conn[t2].win
        /\ conn[t1].exit = "check"
        /\ \E i \in 1..Len(EventsOf(t1)) : EventsOf(t1)[i].event = "message"
        /\ Registered(t2)
        /\ <<conn[t2].win, conn[t2].id>> \in active

\* C12: when the stream ends cleanly with a non-empty accumulator, the call
\* sends exactly one Message carrying the accumulated data, immediately
\* followed by Disconnected{"Stream ended"}, and returns Ok; with an empty
\* accumulator it sends the Disconnected only.
C12_EndOfStreamFlush ==
    [][\A t \in Conns :
        (conn[t].pc = "read" /\ conn'[t].exit = "end") =>
            /\ NewEvents(t) =
                  (IF conn[t].rl.event_data # <<>>
                   THEN <<EvMessage(conn[t].rl.event_data)>>
                   ELSE <<>>) \o <<EvDisconnected(StreamEnded)>>
            /\ conn'[t].pc = "done"
            /\ conn'[t].result = "ok"]_vars

\* a stream that ended after a data: line and before the blank line
C12_Witness ==
    \E t \in Conns :
        /\ conn[t].exit = "end"
        /\ conn[t].rl.event_data # <<>>
        /\ EventsOf(t) = <<EvConnected,
                           EvMessage(conn[t].rl.event_data),
                           EvDisconnected(StreamEnded)>>

\* C13: when a read waits longer than the read timeout, the call sends
\* exactly one Error event, the read-timeout one, and returns Err; it sends
\* no pending-record Message and no Disconnected, and nothing after the Error.
C13_ReadTimeout ==
    /\ [][\A t \in Conns :
            (conn[t].pc = "read" /\ conn'[t].exit = "timeout") =>
                /\ NewEvents(t) = <<EvError(MsgReadTimeout)>>
                /\ conn'[t].pc = "done"
                /\ conn'[t].result = "err"]_vars
    /\ [][\A t \in Conns :
            conn[t].exit = "timeout" => conn'[t] = conn[t]]_vars
    /\ [](\A t \in Conns :
            conn[t].exit = "timeout" =>
                /\ Last(EventsOf(t)) = EvError(MsgReadTimeout)
                /\ \A i \in 1..(Len(EventsOf(t)) - 1) : ~IsTerminal(EventsOf(t)[i]))

\* a read timed out while a record was pending in the accumulator
C13_Witness ==
    \E t \in Conns :
        /\ conn[t].exit = "timeout"
        /\ conn[t].rl.event_data # <<>>
        /\ EventsOf(t) = <<EvConnected, EvError(MsgReadTimeout)>>

\* the call has taken its connection id
Allocated(t) == conn[t].pc # "idle"

\* C14: connection ids are strictly increasing in allocation order (the
\* calls are numbered in the order of their fetch_add), no id is given to two
\* calls, whether they run one after the other or at once, on one window or
\* on several, and every id given out is positive and not above the counter.
C14_IdsIncreasing ==
    /\ \A t1, t2 \in Conns :
            (Allocated(t1) /\ Allocated(t2) /\ t1 < t2) => conn[t1].id < conn[t2].id
    /\ \A t \in Conns : Allocated(t) => (1 <= conn[t].id /\ conn[t].id <= next_id)

\* two calls hold ids at once, neither having registered its id yet
C14_Witness ==
    \E t1, t2 \in Conns :
        /\ t1 # t2
        /\ conn[t1].pc = "insert"
        /\ conn[t2].pc = "insert"
        /\ conn[t1].id # conn[t2].id

\* what a call of sse_disconnect for window w has to do
DisconnectEffect(w) ==
    /\ MapGet(active', w) = 0
    /\ MapGet(active, w) = 0 => UNCHANGED vars
    /\ \A v \in Windows \ {w} : MapGet(active', v) = MapGet(active, v)
    /\ UNCHANGED <<next_id, ncalls, nchunks, conn>>

\* C15: sse_disconnect is idempotent: in every reachable state it can be
\* called for every window, and the call leaves no connection active for the
\* window, changes no state at all when nothing was active (so that a second
\* call after it changes nothing), and never touches anything but the
\* window's entry of the active map.
C15_DisconnectIdempotent ==
    \A w \in Windows : ENABLED (SseDisconnect(w) /\ DisconnectEffect(w))

\* a connection is in its read loop and its window has no active connection:
\* it was disconnected
C15_Witness ==
    /\ ncalls = 1
    /\ conn[1].pc \in {"check", "read"}
    /\ MapGet(active, conn[1].win) = 0

\* the call is in its read loop and no connection is active for its window
Disconnected(t) ==
    /\ conn[t].pc \in {"check", "read"}
    /\ MapGet(active, conn[t].win) = 0

\* C16 as stated: a connection disconnected while in its read loop ends by
\* sending Disconnected{"Disconnected by client"} and returning Ok, not an
\* error.
C16_Original ==
    [][\A t \in Conns :
        (Disconnected(t) /\ Returns(t)) =>
            /\ Last(EventsOf(t)') = EvDisconnected(ByClient)
            /\ conn'[t].result = "ok"]_vars

\* C16 amended: a connection disconnected while in its read loop never
\* becomes the active one again and always terminates: it can always take a
\* step, a step from the read it is waiting for leads to the check at the top
\* of the loop or to the return, and the check leads to the return.  When
\* the read yields a chunk, the check that follows sends
\* Disconnected{"Disconnected by client"} and the call returns Ok.  When the
\* read yields the end of the stream, an error or the read timeout, the call
\* returns through that arm: Disconnected{"Stream ended"} and Ok, or Error
\* and Err.
C16_DisconnectedTerminates ==
    /\ [](\A t \in Conns : Disconnected(t) => ENABLED ConnStep(t))
    /\ [][\A t \in Conns :
            (Registered(t) /\ MapGet(active, conn[t].win) # conn[t].id) =>
                MapGet(active', conn[t].win) # conn[t].id]_vars
    /\ [][\A t \in Conns :
            (Disconnected(t) /\ conn'[t] # conn[t]) =>
                \/ /\ conn[t].pc = "check"
                   /\ conn'[t].pc = "done"
                   /\ NewEvents(t) = <<EvDisconnected(ByClient)>>
                   /\ conn'[t].result = "ok"
                \/ /\ conn[t].pc = "read"
                   /\ conn'[t].pc = "check"
                \/ /\ conn[t].pc = "read"
                   /\ conn'[t].pc = "done"
                   /\ \/ /\ Last(EventsOf(t)') = EvDisconnected(StreamEnded)
                         /\ conn'[t].result = "ok"
                      \/ /\ Last(EventsOf(t)') \in { EvError(MsgStreamError),
                                                      EvError(MsgReadTimeout) }
                         /\ conn'[t].result = "err"]_vars

\* a connection, disconnected while it waited for a chunk, got the chunk and
\* was ended by the check that followed
C16_Witness ==
    /\ ncalls = 1
    /\ conn[1].exit = "check"
    /\ MapGet(active, conn[1].win) = 0
    /\ \E i \in 1..Len(EventsOf(1)) : EventsOf(1)[i].event = "message"

\* the step leaves the active id of every window but w as it is
OtherWindowsKept(w) ==
    \A v \in Windows \ {w} : MapGet(active', v) = MapGet(active, v)

\* C21: windows are independent: a connect, a disconnect or a teardown for
\* one window never changes the active connection id of another window, and
\* never makes another window's connection terminate: a connection that is
\* its window's active one stays so through every step made for another
\* window, and a connection leaves through the check at the top of its loop
\* only when its own window's entry is no longer its id.
C21_WindowsIndependent ==
    /\ [][\A t \in Conns :
            (conn[t].pc = "insert" /\ conn'[t].pc # "insert") =>
                OtherWindowsKept(conn[t].win)]_vars
    /\ [][\A w \in Windows :
            (SseDisconnect(w) \/ WindowDestroyed(w)) => OtherWindowsKept(w)]_vars
    /\ [][\A t \in Conns :
            (Registered(t) /\ MapGet(active, conn[t].win) = conn[t].id
                /\ MapGet(active', conn[t].win) # conn[t].id) =>
                    \/ SseDisconnect(conn[t].win)
                    \/ \E u \in Conns \ {t} :
                            /\ conn[u].win = conn[t].win
                            /\ conn[u].pc = "insert"
                            /\ conn'[u].pc = "send"]_vars
    /\ [][\A t \in Conns :
            (conn[t].pc = "check" /\ conn'[t].exit = "check") =>
                MapGet(active, conn[t].win) # conn[t].id]_vars

\* the connection of one window was disconnected and ended by its check
\* while the connection of the other window is still the active one there
C21_Witness ==
    \E t1, t2 \in Conns :
        /\ conn[t1].win # conn[t2].win
        /\ conn[t1].exit = "check"
        /\ conn[t2].pc \in {"check", "read"}
        /\ MapGet(active, conn[t2].win) = conn[t2].id

\* the connection ids allocated for window w
IdsOf(w) == {conn[t].id : t \in {u \in Conns : Allocated(u) /\ conn[u].win = w}}

\* C23: when several sse_connect calls for one window run concurrently,
\* once all of them have registered, the window's active id (if it has one)
\* is the largest id allocated for the window: a call that got a smaller id
\* never overwrites one that got a larger id.
C23_LargestIdActive ==
    \A w \in Windows :
        (/\ \A t \in Conns : conn[t].win = w => conn[t].pc # "insert"
         /\ MapGet(active, w) # 0) =>
            \A id \in IdsOf(w) : id <= MapGet(active, w)

(***************************************************************************)
(* The service supervisor.  start[t].pc is where the t-th call of          *)
(* start_opencode_service stands:                                          *)
(*   "idle"    not called yet                                              *)
(*   "spawn"   the health probe failed (line 377), about to spawn          *)
(*   "record"  the child runs (line 383), about to store its pid           *)
(*   "flag"    child_pid stored (line 386), about to set we_started        *)
(*   "poll"    we_started set (line 387), in the readiness loop            *)
(*   "done"    returned                                                    *)
(* stop[s].pc is where the s-th call of stop_opencode_service or           *)
(* confirm_close_app stands: "idle", "clear" (the pid taken out of         *)
(* child_pid, lines 404 and 429), "done".                                  *)
(* The field solo of a call is a history variable: no other call of the    *)
(* supervisor was in progress at any time between its start and now.       *)
(***************************************************************************)
Starts == 1..MaxCalls
Stops == 1..MaxCalls

PollBudget == 30

InProgress(c) == c.pc \notin {"idle", "done"}

NoCallInProgress ==
    /\ \A t \in Starts : ~InProgress(start[t])
    /\ \A s \in Stops : ~InProgress(stop[s])

CallsMade ==
    Cardinality({t \in Starts : start[t].pc # "idle"})
        + Cardinality({s \in Stops : stop[s].pc # "idle"})

\* a call begins: the calls in progress are no longer alone
Overlapped(calls) ==
    [i \in DOMAIN calls |->
        IF InProgress(calls[i]) THEN [calls[i] EXCEPT !.solo = FALSE] ELSE calls[i]]

\* a stop or confirm_close_app call that has returned Ok(()): nothing of it
\* is left but the fact that it was made
Returned == [IdleStop EXCEPT !.pc = "done", !.result = "ok"]

IsServiceRunningNever == FALSE

\* is_service_running(url), lines 287-302: GET /global/health answered 2xx
IsServiceRunning == healthy

\* Option::take(), lines 404 and 429: what the slot holds afterwards
LeftByPeek(p) == p

LeftByTake(p) == 0

KillAlways(pid, ks) == ks \cup {pid}

\* lines 407-410 and 430-433: if let Some(pid) = pid { kill_process_by_pid(pid) }
KillIfSome(pid, ks) == IF pid # 0 THEN ks \cup {pid} ELSE ks

\* the pid the operating system gives the next child
FreshPid == Cardinality(spawned) + 1

\* the service comes up or goes down (the spawned child, or one started elsewhere)
EnvHealth ==
    /\ healthy' = ~healthy
    /\ UNCHANGED <<child_pid, we_started, spawned, killed, start, stop>>
    /\ UNCHANGED relayVars
    /\ UNCHANGED parseVars

StartCallDisowning(t) ==
    /\ start[t].pc = "idle"
    /\ \A u \in Starts : u < t => start[u].pc # "idle"
    /\ CallsMade < MaxCalls
    /\ start' = [Overlapped(start) EXCEPT ![t] =
                    IF IsServiceRunning
                    THEN [@ EXCEPT !.pc = "done", !.result = "false", !.solo = NoCallInProgress]
                    ELSE [@ EXCEPT !.pc = "spawn", !.solo = NoCallInProgress]]
    /\ stop' = Overlapped(stop)
    /\ we_started' = IF IsServiceRunning THEN FALSE ELSE we_started
    /\ UNCHANGED <<child_pid, healthy, spawned, killed>>
    /\ UNCHANGED relayVars
    /\ UNCHANGED parseVars

\* lines 371-380: the call starts and probes the service
StartCall(t) ==
    /\ start[t].pc = "idle"
    /\ \A u \in Starts : u < t => start[u].pc # "idle"
    /\ CallsMade < MaxCalls
    /\ start' = [Overlapped(start) EXCEPT ![t] =
                    IF IsServiceRunning
                    THEN [@ EXCEPT !.pc = "done", !.result = "false", !.solo = NoCallInProgress]
                    ELSE [@ EXCEPT !.pc = "spawn", !.solo = NoCallInProgress]]
    /\ stop' = Overlapped(stop)
    /\ UNCHANGED <<child_pid, we_started, healthy, spawned, killed>>
    /\ UNCHANGED relayVars
    /\ UNCHANGED parseVars

\* lines 382-384 (spawn_opencode_serve, lines 305-337): the child is created
StartSpawn(t) ==
    /\ start[t].pc = "spawn"
    /\ spawned' = spawned \cup {FreshPid}
    /\ start' = [start EXCEPT ![t].pc = "record", ![t].pid = FreshPid]
    /\ UNCHANGED <<child_pid, we_started, healthy, killed, stop>>
    /\ UNCHANGED relayVars
    /\ UNCHANGED parseVars

StartSpawnFailOwning(t) ==
    /\ start[t].pc = "spawn"
    /\ start' = [start EXCEPT ![t].pc = "done", ![t].result = "err"]
    /\ we_started' = TRUE
    /\ UNCHANGED <<child_pid, healthy, spawned, killed, stop>>
    /\ UNCHANGED relayVars
    /\ UNCHANGED parseVars

\* lines 331-336 and the `?` of line 382: cmd.spawn() fails
StartSpawnFail(t) ==
    /\ start[t].pc = "spawn"
    /\ start' = [start EXCEPT ![t].pc = "done", ![t].result = "err"]
    /\ UNCHANGED <<child_pid, we_started, healthy, spawned, killed, stop>>
    /\ UNCHANGED relayVars
    /\ UNCHANGED parseVars

\* line 386: *state.child_pid.lock()? = Some(pid)
StartRecord(t) ==
    /\ start[t].pc = "record"
    /\ child_pid' = start[t].pid
    /\ start' = [start EXCEPT ![t].pc = "flag"]
    /\ UNCHANGED <<we_started, healthy, spawned, killed, stop>>
    /\ UNCHANGED relayVars
    /\ UNCHANGED parseVars

\* line 387: state.we_started.store(true)
StartFlag(t) ==
    /\ start[t].pc = "flag"
    /\ we_started' = TRUE
    /\ start' = [start EXCEPT ![t].pc = "poll"]
    /\ UNCHANGED <<child_pid, healthy, spawned, killed, stop>>
    /\ UNCHANGED relayVars
    /\ UNCHANGED parseVars

\* lines 389-398: the readiness loop.  Its probes read nothing but the
\* service's health and it writes no shared state, so the whole loop is one
\* step: it ends at the first probe that succeeds, the n-th, or after
\* PollBudget failed ones; both ways the call returns Ok(true).
StartPoll(t, n) ==
    /\ start[t].pc = "poll"
    /\ IF IsServiceRunning THEN n \in 1..PollBudget ELSE n = PollBudget
    /\ start' = [start EXCEPT ![t].pc = "done", ![t].polls = n, ![t].result = "true"]
    /\ UNCHANGED <<child_pid, we_started, healthy, spawned, killed, stop>>
    /\ UNCHANGED relayVars
    /\ UNCHANGED parseVars

\* line 404 (stop) and lines 428-429 (confirm_close_app, stop_service = true):
\* the call starts and takes the pid out of child_pid
StopTake(s, kind, w) ==
    /\ stop[s].pc = "idle"
    /\ \A u \in Stops : u < s => stop[u].pc # "idle"
    /\ CallsMade < MaxCalls
    /\ kind \in {"stop", "close"}
    /\ kind = "stop" => w = "main"
    /\ stop' = [Overlapped(stop) EXCEPT ![s] =
                    [@ EXCEPT !.pc = "clear", !.kind = kind, !.win = w,
                              !.pid = child_pid, !.solo = NoCallInProgress]]
    /\ start' = Overlapped(start)
    /\ child_pid' = LeftByTake(child_pid)
    /\ UNCHANGED <<we_started, healthy, spawned, killed>>
    /\ UNCHANGED relayVars
    /\ UNCHANGED parseVars

\* lines 405-412: stop clears we_started, kills the pid it took, returns Ok
StopClear(s) ==
    /\ stop[s].pc = "clear"
    /\ stop[s].kind = "stop"
    /\ we_started' = FALSE
    /\ killed' = KillIfSome(stop[s].pid, killed)
    /\ stop' = [stop EXCEPT ![s] = Returned]
    /\ UNCHANGED <<child_pid, healthy, spawned, start>>
    /\ UNCHANGED relayVars
    /\ UNCHANGED parseVars

CloseClearKeepingFlag(s) ==
    /\ stop[s].pc = "clear"
    /\ stop[s].kind = "close"
    /\ killed' = KillIfSome(stop[s].pid, killed)
    /\ active' = MapRemove(active, stop[s].win)
    /\ stop' = [stop EXCEPT ![s] = Returned]
    /\ UNCHANGED <<child_pid, we_started, healthy, spawned, start>>
    /\ UNCHANGED <<next_id, ncalls, nchunks, conn>>
    /\ UNCHANGED parseVars

\* lines 430-439: confirm_close_app kills the pid it took, clears we_started
\* and destroys the window, whose Destroyed handler (lines 536-540) runs
CloseClear(s) ==
    /\ stop[s].pc = "clear"
    /\ stop[s].kind = "close"
    /\ killed' = KillIfSome(stop[s].pid, killed)
    /\ we_started' = FALSE
    /\ active' = MapRemove(active, stop[s].win)
    /\ stop' = [stop EXCEPT ![s] = Returned]
    /\ UNCHANGED <<child_pid, healthy, spawned, start>>
    /\ UNCHANGED <<next_id, ncalls, nchunks, conn>>
    /\ UNCHANGED parseVars

\* lines 435-439: confirm_close_app with stop_service = false
CloseKeep(s, w) ==
    /\ stop[s].pc = "idle"
    /\ \A u \in Stops : u < s => stop[u].pc # "idle"
    /\ CallsMade < MaxCalls
    /\ stop' = [Overlapped(stop) EXCEPT ![s] = Returned]
    /\ start' = Overlapped(start)
    /\ active' = MapRemove(active, w)
    /\ UNCHANGED <<child_pid, we_started, healthy, spawned, killed>>
    /\ UNCHANGED <<next_id, ncalls, nchunks, conn>>
    /\ UNCHANGED parseVars

\* get_service_started_by_us, lines 416-419
QueryOwnership == we_started

ServiceNext ==
    \/ EnvHealth
    \/ \E t \in Starts : StartCall(t)
    \/ \E t \in Starts : StartSpawn(t)
    \/ \E t \in Starts : StartSpawnFail(t)
    \/ \E t \in Starts : StartRecord(t)
    \/ \E t \in Starts : StartFlag(t)
    \/ \E t \in Starts : \E n \in {1, PollBudget} : StartPoll(t, n)
    \/ \E s \in Stops : \E w \in Windows : StopTake(s, "stop", w)
    \/ \E s \in Stops : \E w \in Windows : StopTake(s, "close", w)
    \/ \E s \in Stops : StopClear(s)
    \/ \E s \in Stops : CloseClear(s)
    \/ \E s \in Stops : \E w \in Windows : CloseKeep(s, w)

InitService == RelayInit /\ ServiceInit /\ ParseIdle

SpecService == InitService /\ [][ServiceNext]_vars

(***************************************************************************)
(* The readiness loop of start_opencode_service, iteration by iteration.   *)
(* SpecService takes the loop in one step (StartPoll); here one start call  *)
(* is followed through every poll, with stop calls made around it.         *)
(* start[t].polls counts the probes the loop has made.                     *)
(***************************************************************************)
PollStarts == {1}

BudgetLeftOneMore(polls) == polls <= PollBudget

\* for _ in 0..30 (line 389): another iteration follows the polls made
BudgetLeft(polls) == polls < PollBudget

\* lines 389-398: one iteration (sleep, probe); the iteration whose probe
\* succeeds returns Ok(true) (line 393), the last one of the budget falls out
\* of the loop to the warning and Ok(true) (lines 397-398)
StartPollOnce(t) ==
    /\ start[t].pc = "poll"
    /\ LET n == start[t].polls + 1 IN
        start' = [start EXCEPT ![t] =
                    IF IsServiceRunning \/ ~BudgetLeft(n)
                    THEN [@ EXCEPT !.pc = "done", !.polls = n, !.result = "true"]
                    ELSE [@ EXCEPT !.polls = n]]
    /\ UNCHANGED <<child_pid, we_started, healthy, spawned, killed, stop>>
    /\ UNCHANGED relayVars
    /\ UNCHANGED parseVars

\* the steps of the start call t once its child runs
StartStep(t) == StartRecord(t) \/ StartFlag(t) \/ StartPollOnce(t)

PollNext ==
    \/ EnvHealth
    \/ \E t \in PollStarts : StartCall(t)
    \/ \E t \in PollStarts : StartSpawn(t)
    \/ \E t \in PollStarts : StartSpawnFail(t)
    \/ \E t \in PollStarts : StartStep(t)
    \/ \E s \in Stops : StopTake(s, "stop", "main")
    \/ \E s \in Stops : StopClear(s)

InitPoll == RelayInit /\ ServiceInit /\ ParseIdle

SpecPoll == InitPoll /\ [][PollNext]_vars

\* A start call whose child runs goes on: the lock of line 386 is held by
\* others for a moment only, the sleep of line 390 ends, and each probe ends
\* within its timeouts (lines 290 and 295).
FairSpecPoll == SpecPoll /\ \A t \in PollStarts : WF_vars(StartStep(t))

(***************************************************************************)
(* Properties of the service supervisor                                    *)
(***************************************************************************)

\* C5: we_started = true implies a pid is tracked, under any interleaving of
\* start, stop and confirm_close_app.  Stated here for the states in which no
\* call is in progress, which the claim covers with all the others: even at
\* rest the flag must not be set while no pid is tracked.
C5_OwnedImpliesTracked == NoCallInProgress => (we_started => child_pid # 0)

\* the step by which the second start call is made, the first one having
\* returned with no other call made before or during it
SecondStartCalled ==
    /\ start[1].pc = "done"
    /\ start[1].solo
    /\ \A s \in Stops : stop[s].pc = "idle"
    /\ start[2].pc = "idle"
    /\ start'[2].pc # "idle"

\* C6 as stated: when start is called twice in succession and the service is
\* healthy after the first call returns, the first call returns true, the
\* second returns false and exactly one process is spawned in total.
C6_Original ==
    [][(SecondStartCalled /\ healthy) =>
            /\ start[1].result = "true"
            /\ start'[2].result = "false"
            /\ Cardinality(spawned') = 1]_vars

\* C6: when start is called twice in succession, the first call spawned a
\* process and the service is healthy when the second call is made, then the
\* first call has returned true, the second returns false, and the process of
\* the first call is the only one spawned.
C6_StartTwice ==
    [][(SecondStartCalled /\ healthy /\ start[1].pid # 0) =>
            /\ start[1].result = "true"
            /\ start'[2].result = "false"
            /\ spawned' = {start[1].pid}]_vars

C6_Witness ==
    /\ start[1].result = "true"
    /\ start[1].solo
    /\ start[2].result = "false"
    /\ start[2].solo
    /\ \A s \in Stops : stop[s].pc = "idle"
    /\ Cardinality(spawned) = 1

\* the step by which the stop call s returns, no other call having been in
\* progress since it was made
StopReturns(s) ==
    /\ stop[s].pc = "clear"
    /\ stop[s].kind = "stop"
    /\ stop[s].solo
    /\ stop'[s].pc = "done"

\* C7: after a start call that spawned a process (we_started = true), a stop
\* call takes the tracked pid, leaves the tracked pid empty and we_started
\* false, so that queryOwnership then returns false, and the pid that was
\* tracked is the one that is sent the kill signal.
C7_StopClearsOwnership ==
    /\ [][\A s \in Stops :
            (stop[s].pc = "idle" /\ stop'[s].pc = "clear") =>
                stop'[s].pid = child_pid]_vars
    /\ [][\A s \in Stops :
            (StopReturns(s) /\ we_started /\ stop[s].pid # 0) =>
                /\ child_pid' = 0
                /\ ~we_started'
                /\ ~QueryOwnership'
                /\ stop'[s].result = "ok"
                /\ killed' = killed \cup {stop[s].pid}]_vars

\* a stop call made alone after a start that spawned has returned: the
\* spawned process is killed and nothing is tracked or owned
C7_Witness ==
    /\ \E t \in Starts : start[t].result = "true" /\ start[t].pid \in killed
    /\ stop[1].pc = "done"
    /\ stop[2].pc = "idle"
    /\ Cardinality({t \in Starts : start[t].pc # "idle"}) = 1
    /\ start[1].solo
    /\ child_pid = 0
    /\ ~we_started

\* C8: stop called when no pid is tracked returns success, sends no kill
\* signal to any process, and leaves the tracked pid empty.
C8_StopWithoutPid ==
    [][\A s \in Stops :
            (StopReturns(s) /\ stop[s].pid = 0) =>
                /\ stop'[s].result = "ok"
                /\ killed' = killed
                /\ child_pid' = 0]_vars

\* a stop call made before anything was ever started has returned
C8_Witness ==
    /\ stop[1].pc = "done"
    /\ stop[1].result = "ok"
    /\ \A t \in Starts : start[t].pc = "idle"
    /\ spawned = {}
    /\ killed = {}
    /\ child_pid = 0

\* the step by which the start call t is made
StartCalled(t) == start[t].pc = "idle" /\ start'[t].pc # "idle"

\* C17: when the health probe is true at the time start is called, start
\* returns false (already running), spawns no process, and leaves the tracked
\* pid and we_started exactly as they were (and kills nothing).
C17_StartWhenHealthy ==
    [][\A t \in Starts :
        (StartCalled(t) /\ healthy) =>
            /\ start'[t].pc = "done"
            /\ start'[t].result = "false"
            /\ start'[t].pid = 0
            /\ UNCHANGED <<child_pid, we_started, spawned, killed>>]_vars

\* a start call found the service healthy while a process spawned by an
\* earlier call was tracked and owned
C17_Witness ==
    /\ start[1].result = "true"
    /\ start[2].result = "false"
    /\ child_pid = start[1].pid
    /\ child_pid # 0
    /\ we_started

\* C18: when spawning the worker fails, start fails with an error value and
\* the pair (child_pid, we_started) is unchanged: no pid is recorded and
\* we_started is not set; no process exists for the call.
C18_SpawnFailure ==
    [][\A t \in Starts :
        (start[t].pc = "spawn" /\ start'[t].result = "err") =>
            /\ start'[t].pc = "done"
            /\ start'[t].pid = 0
            /\ UNCHANGED <<child_pid, we_started, spawned, killed>>]_vars

\* the only start call made failed to spawn: nothing is tracked or owned
C18_Witness ==
    /\ start[1].result = "err"
    /\ start[2].pc = "idle"
    /\ child_pid = 0
    /\ ~we_started
    /\ spawned = {}

\* what stop_opencode_service does to the supervisor's state when it runs
\* alone (lines 404-410): the pid is taken, we_started cleared, the pid that
\* was tracked killed
StopEffect(pid, owned, ks) == <<0, FALSE, KillIfSome(pid, ks)>>

\* C19: confirm_close_app(stop_service = true) has, from every state of the
\* supervisor, the effect of stop_opencode_service: both take the tracked pid
\* in their first step and, run with no other call in progress, return with
\* child_pid, we_started and the set of killed pids as StopEffect gives them;
\* confirm_close_app(stop_service = false) leaves child_pid, we_started, the
\* processes spawned and the processes killed untouched.
C19_CloseLikeStop ==
    /\ [][\A s \in Stops :
            (stop[s].pc = "idle" /\ stop'[s].pc = "clear") =>
                /\ stop'[s].pid = child_pid
                /\ child_pid' = 0
                /\ UNCHANGED <<we_started, spawned, killed>>]_vars
    /\ [][\A s \in Stops :
            (stop[s].pc = "clear" /\ stop[s].solo /\ stop'[s].pc = "done") =>
                /\ <<child_pid', we_started', killed'>> =
                        StopEffect(stop[s].pid, we_started, killed)
                /\ spawned' = spawned]_vars
    /\ [][\A s \in Stops :
            (stop[s].pc = "idle" /\ stop'[s].pc = "done") =>
                UNCHANGED <<child_pid, we_started, spawned, killed>>]_vars

\* confirm_close_app(true), called alone after a start that spawned, has
\* taken the tracked pid and is about to kill it and clear we_started
C19_Witness ==
    \E s \in Stops :
        /\ stop[s].pc = "clear"
        /\ stop[s].kind = "close"
        /\ stop[s].solo
        /\ stop[s].pid # 0
        /\ stop[s].pid \notin killed
        /\ we_started
        /\ child_pid = 0

\* the step of the start call t that makes one more poll
Polls(t) == start'[t].polls # start[t].polls

\* C20: after a successful spawn, start always terminates: it makes at most
\* PollBudget (30) polls, returns true with the first poll that succeeds, and
\* still returns true when all 30 polls fail; it never returns anything but
\* true; in both cases it has recorded its pid and set we_started before its
\* first poll, and when no other call was in progress during it, its pid is
\* the tracked one and we_started is true when it returns.
C20_StartTerminates ==
    /\ [](\A t \in PollStarts :
            /\ start[t].polls <= PollBudget
            /\ start[t].pc = "poll" => start[t].polls < PollBudget
            /\ (start[t].pid # 0 /\ start[t].pc = "done") => start[t].result = "true")
    /\ [][\A t \in PollStarts :
            Polls(t) =>
                /\ start[t].pc = "poll"
                /\ start'[t].polls = start[t].polls + 1
                /\ healthy => start'[t].pc = "done"
                /\ (~healthy /\ start'[t].polls < PollBudget) => start'[t].pc = "poll"
                /\ (~healthy /\ start'[t].polls = PollBudget) => start'[t].pc = "done"
                /\ start'[t].pc = "done" =>
                        /\ start'[t].result = "true"
                        /\ start'[t].solo => (child_pid' = start[t].pid /\ we_started')
                /\ UNCHANGED <<child_pid, we_started, spawned, killed>>]_vars
    /\ [][\A t \in PollStarts :
            /\ (start[t].pc = "record" /\ start'[t].pc # "record") =>
                    (start'[t].pc = "flag" /\ child_pid' = start[t].pid)
            /\ (start[t].pc = "flag" /\ start'[t].pc # "flag") =>
                    (start'[t].pc = "poll" /\ we_started')]_vars
    /\ \A t \in PollStarts :
            (start[t].pid # 0 /\ start[t].pc # "done") ~> (start[t].pc = "done")

\* the start call returned true after 30 failed polls, with no other call in
\* progress during it, its pid tracked and owned
C20_Witness ==
    /\ start[1].pc = "done"
    /\ start[1].polls = PollBudget
    /\ start[1].result = "true"
    /\ start[1].solo
    /\ ~healthy
    /\ child_pid = start[1].pid
    /\ we_started

\* C24: no spawned worker is orphaned: every process spawned by start that
\* has not been sent a kill signal is the tracked pid.  Stated here for the
\* states in which no call is in progress, which the claim covers with all
\* the others.
C24_NoOrphan ==
    NoCallInProgress => \A p \in spawned \ killed : p = child_pid

(***************************************************************************)
(* Parser harness: one connection's read loop fed a fixed byte stream in   *)
(* every possible chunking.                                                *)
(***************************************************************************)
ParseLines ==
    { <<"d", "a", "t", "a", ":", " ", "C3", "A9">>,  \* data: e'
      <<"d", "a", "t", "a", ":", "y", " ", "\r">>,   \* data:y , CRLF
      <<"d", "a", "t", "a", ":">>,                   \* data:
      <<>>,                                          \* blank
      <<"\r">>,                                      \* blank, CRLF
      <<":", "c">>,                                  \* :c
      <<"i", "d", ":", "1">> }                       \* id:1

\* the lines, each ended by '\n'
InputOf(ls) == Flatten([i \in 1..Len(ls) |-> ls[i] \o <<"\n">>])

ParseInputs ==
    UNION { { InputOf(ls) : ls \in [1..n -> ParseLines] } : n \in 1..MaxLines }

ParseInit ==
    /\ p_input \in ParseInputs
    /\ p_pos = 0
    /\ p_text = <<>>
    /\ p_eof = FALSE
    /\ p_rl = EmptyLoop

\* stream.next() yields the next k bytes as one chunk (lines 145-180)
Feed(k) ==
    /\ ~p_eof
    /\ p_pos + k <= Len(p_input)
    /\ LET chunk == SubSeq(p_input, p_pos + 1, p_pos + k) IN
        /\ p_rl' = ProcessChunk(p_rl, chunk)
        /\ p_text' = p_text \o FromUtf8Lossy(chunk)
    /\ p_pos' = p_pos + k
    /\ UNCHANGED <<p_input, p_eof>>
    /\ UNCHANGED relayVars
    /\ UNCHANGED serviceVars

\* stream.next() yields None (lines 188-199)
FeedEnd ==
    /\ ~p_eof
    /\ p_pos = Len(p_input)
    /\ p_rl' = ProcessEnd(p_rl)
    /\ p_eof' = TRUE
    /\ UNCHANGED <<p_input, p_pos, p_text>>
    /\ UNCHANGED relayVars
    /\ UNCHANGED serviceVars

ParseNext ==
    \/ \E k \in 1..(MaxLines * 8) : Feed(k)
    \/ FeedEnd

InitParse == RelayInit /\ ServiceInit /\ ParseInit

SpecParse == InitParse /\ [][ParseNext]_vars

(***************************************************************************)
(* Reading a delivered text the way the SSE framing rule describes it.     *)
(***************************************************************************)
MessagesOf(events) == SelectSeq(events, LAMBDA e : e.event = "message")

\* the complete lines of a text, without their '\n'
RECURSIVE SplitLines(_)
SplitLines(text) ==
    LET n == Find(text, "\n") IN
    IF n = 0 THEN <<>>
    ELSE <<SubSeq(text, 1, n - 1)>> \o SplitLines(SubSeq(text, n + 1, Len(text)))

IsDataLine(l) == HasDataPrefix(TrimEndCr(l))
IsBlankLine(l) == TrimEndCr(l) = <<>>
PayloadOf(l) == Trim(StripDataPrefix(TrimEndCr(l)))

RECURSIVE JoinNl(_)
JoinNl(ps) ==
    IF ps = <<>> THEN <<>>
    ELSE IF Len(ps) = 1 THEN ps[1]
    ELSE ps[1] \o <<"\n">> \o JoinNl(Tail(ps))

\* consecutive data: lines followed by one blank line
IsDataRecord(ls) ==
    /\ Len(ls) >= 2
    /\ IsBlankLine(ls[Len(ls)])
    /\ \A i \in 1..(Len(ls) - 1) : IsDataLine(ls[i])

PayloadsOf(ls) == [i \in 1..(Len(ls) - 1) |-> PayloadOf(ls[i])]

\* C9: for a fixed input the Message events are the same for every way of
\* cutting the input into chunks: once the whole input is delivered (and once
\* the stream has ended), what was sent equals what one single chunk holding
\* the whole input makes the loop send.
C9_ChunkingInvariant ==
    p_pos = Len(p_input) =>
        LET whole == ProcessChunk(EmptyLoop, p_input) IN
        MessagesOf(p_rl.events) =
            MessagesOf(IF p_eof THEN ProcessEnd(whole).events ELSE whole.events)

ProcessText(text) == DrainLines([EmptyLoop EXCEPT !.buffer = text])

\* a line that is neither a data: line nor a blank line: id:, retry:, event:,
\* a comment, an unknown field
IsOtherLine(l) == ~IsDataLine(l) /\ ~IsBlankLine(l)

\* C11: lines that are neither data: lines nor blank never contribute to a
\* Message and neither flush nor reset the accumulator: at every point of the
\* delivery, the events sent and the accumulator are those the loop produces
\* from the same complete lines with the other lines removed.
C11_OtherLinesIgnored ==
    LET ls == SplitLines(p_text)
        kept == SelectSeq(ls, LAMBDA l : ~IsOtherLine(l))
        bare == ProcessText(InputOf(kept))
    IN  /\ p_rl.event_data = bare.event_data
        /\ p_rl.events = IF p_eof THEN ProcessEnd(bare).events ELSE bare.events

\* a data: line, then a comment line, then the blank line, and the Message of
\* the data: line was sent
C11_Witness ==
    LET ls == SplitLines(p_text) IN
    /\ Len(ls) = 3
    /\ IsDataLine(ls[1])
    /\ PayloadOf(ls[1]) # <<>>
    /\ IsOtherLine(ls[2])
    /\ IsBlankLine(ls[3])
    /\ p_rl.events = <<EvMessage(PayloadOf(ls[1]))>>

\* the accumulator after the data: lines ls when every line appends its
\* payload, preceded by "\n" when the accumulator already has content
RECURSIVE AppendAll(_)
AppendAll(ls) ==
    IF ls = <<>> THEN <<>>
    ELSE AppendData(AppendAll(SubSeq(ls, 1, Len(ls) - 1)), PayloadOf(ls[Len(ls)]))

\* C22: every data: line appends its payload to the accumulator, preceded by
\* "\n" whenever the accumulator already has content, for every payload, the
\* empty one included: while the lines delivered are all data: lines, the
\* accumulator is what appending each of their payloads in turn gives.
C22_EveryDataLineAppends ==
    LET ls == SplitLines(p_text) IN
    (\A i \in 1..Len(ls) : IsDataLine(ls[i])) =>
        p_rl.event_data = AppendAll(ls)

====
